---- MODULE Spec2Model ----
(***************************************************************************)
(* Model of src/s.py (Solar System Simulator): the body list, the          *)
(* collision scan, the kick-drift-kick physics frame, the per-body trail   *)
(* and the input events that mutate bodies between frames.                 *)
(*                                                                         *)
(* Numbers are integers.  Model units: length 1e8 m, time 432 s (so that   *)
(* TIME_STEP and both step sizes dt, dt/2 are whole numbers), mass chosen  *)
(* so that G is 1.  Float division is modelled by Div, integer division    *)
(* that rounds toward zero (sign-symmetric, as IEEE division is); float    *)
(* square root by ISqrt, the integer square root.                          *)
(***************************************************************************)
EXTENDS Integers, Sequences, FiniteSets, TLC

\* ---------------------------------------------------------------- bounds
\* Frames that may run in one behaviour of Spec.
MaxFrames == 1
\* Input events handled in one behaviour.
MaxEvents == 3
\* Frames that may run in one behaviour of SpecFrame.
MaxRunFrames == 2
\* Frames that may run in one behaviour of SpecLong (more than the
\* shortest max_trail_length, so that eviction happens).
MaxLongFrames == 104
\* Frames already completed when SpecTrail starts, and frames it may add.
TrailStartFrames == 98
MaxTrailFrames == 4
\* Longest body list SpecCollide hands to check_collisions.
MaxScanBodies == 3
\* Bodies the list may hold after add_random_body.
\* longest body list given to _correct_center_of_mass_drift_for_bodies
MaxDriftBodies == 3
\* sub-steps of a frame that are run on the lists of ForceLists, and their length
MaxForceSteps == 2
MaxForceBodies == 3
MaxBodies == 3

\* ------------------------------------------------------ program constants
G == 1
AU == 1496
TIME_STEP == 200
Softening == 1
CollisionScale == 10
TrailBase == 100
TrailSpan == 700
SubstepsMoon == 100
SubstepsDefault == 20

None == 0

\* ------------------------------------------------------------- arithmetic
Abs(n) == IF n < 0 THEN -n ELSE n

Min(a, b) == IF a < b THEN a ELSE b

\* float division a / b for b > 0, rounded toward zero
Div(a, b) == IF a >= 0 THEN a \div b ELSE -((-a) \div b)

RECURSIVE SqrtSearch(_, _, _)
SqrtSearch(n, lo, hi) ==
    IF lo >= hi THEN lo
    ELSE LET mid == (lo + hi + 1) \div 2
         IN  IF mid * mid <= n THEN SqrtSearch(n, mid, hi)
             ELSE SqrtSearch(n, lo, mid - 1)

\* math.sqrt / np.linalg.norm on a non-negative square: floor of the root
ISqrt(n) == SqrtSearch(n, 0, IF n < 46340 THEN n ELSE 46340)

VAdd(a, b) == <<a[1] + b[1], a[2] + b[2]>>
VSub(a, b) == <<a[1] - b[1], a[2] - b[2]>>
VScale(a, k) == <<a[1] * k, a[2] * k>>
VDiv(a, k) == <<Div(a[1], k), Div(a[2], k)>>
Norm2(a) == a[1] * a[1] + a[2] * a[2]

\* mutant of RemoveAt: nothing is removed
RemoveAt_none(s, k) == s

RemoveAt(s, k) == [n \in 1..(Len(s) - 1) |-> IF n < k THEN s[n] ELSE s[n + 1]]

\* ------------------------------------------------------------ CelestialBody
\* int(100 + 700 * min(1.0, ratio / 10)), ratio = orbital_distance / AU,
\* with AU standing in for a zero orbital_distance
calculate_trail_length(position) ==
    LET orbital_distance == ISqrt(Norm2(position))
        d == IF orbital_distance > 0 THEN orbital_distance ELSE AU
    IN  TrailBase + Min(TrailSpan, (TrailSpan * d) \div (10 * AU))

\* CelestialBody.__init__; id stands for the identity of the Python object
CelestialBody(id, name, mass, position, velocity, base_radius) ==
    [id |-> id, name |-> name, mass |-> mass, position |-> position,
     velocity |-> velocity, base_radius |-> base_radius, trail |-> <<>>,
     force_vector |-> <<0, 0>>,
     max_trail_length |-> calculate_trail_length(position)]

\* force on b from one other body o (the body of the loop in calculate_forces)
\* mutant of PairForce: a coincident pair is pushed apart along the x axis
PairForce_coincident_push(b, o) ==
    LET r_vec == IF o.position = b.position THEN <<1, 0>> ELSE VSub(o.position, b.position)
        r_mag_soft == ISqrt(Norm2(r_vec) + Softening * Softening)
        force_mag == Div(G * b.mass * o.mass, r_mag_soft * r_mag_soft)
    IN  VDiv(VScale(r_vec, force_mag), r_mag_soft)

\* mutant of PairForce: the body's own mass is taken twice
PairForce_self_mass(b, o) ==
    LET r_vec == VSub(o.position, b.position)
        r2 == Norm2(r_vec)
    IN  IF ISqrt(r2) > 0
        THEN LET r_mag_soft == ISqrt(r2 + Softening * Softening)
                 force_mag == Div(G * b.mass * b.mass, r_mag_soft * r_mag_soft)
             IN  VDiv(VScale(r_vec, force_mag), r_mag_soft)
        ELSE <<0, 0>>

PairForce(b, o) ==
    LET r_vec == VSub(o.position, b.position)
        r2 == Norm2(r_vec)
    IN  IF ISqrt(r2) > 0
        THEN LET r_mag_soft == ISqrt(r2 + Softening * Softening)
                 force_mag == Div(G * b.mass * o.mass, r_mag_soft * r_mag_soft)
             IN  VDiv(VScale(r_vec, force_mag), r_mag_soft)
        ELSE <<0, 0>>

\* mutant of IsOther: bodies are compared by mass and velocity
IsOther_by_value(b, o) == o.mass # b.mass \/ o.velocity # b.velocity

\* if body != self: CelestialBody has no __eq__, objects are compared by identity
IsOther(b, o) == o.id # b.id

RECURSIVE SumForces(_, _, _)
SumForces(bs, n, k) ==
    IF k > Len(bs) THEN <<0, 0>>
    ELSE VAdd(IF IsOther(bs[n], bs[k]) THEN PairForce(bs[n], bs[k]) ELSE <<0, 0>>,
              SumForces(bs, n, k + 1))

\* CelestialBody.calculate_forces for the n-th body of the list
calculate_forces(bs, n) == SumForces(bs, n, 1)

\* mutant of update_trail: nothing is evicted
update_trail_no_evict(b) == [b EXCEPT !.trail = Append(b.trail, b.position)]

\* mutant of update_trail: the newest point is evicted, not the oldest
update_trail_pop_last(b) ==
    LET t == Append(b.trail, b.position)
    IN  [b EXCEPT !.trail = IF Len(t) > b.max_trail_length THEN SubSeq(t, 1, Len(t) - 1) ELSE t]

\* CelestialBody.update_trail
update_trail(b) ==
    LET t == Append(b.trail, b.position)
    IN  [b EXCEPT !.trail = IF Len(t) > b.max_trail_length THEN Tail(t) ELSE t]

\* ------------------------------------------------------------------ state
VARIABLES
    bodies,             \* self.bodies: the list of CelestialBody records
    paused,             \* self.paused
    interaction_mode,   \* 'idle' | 'pan_camera' | 'drag_body' | 'drag_vector'
    active_body,        \* id of self.active_body, or None
    selected_body,      \* id of self.selected_body, or None
    edit_panel,         \* TRUE iff self.edit_panel is not None
    collision_messages, \* self.collision_messages, newest first
    time_scale,         \* self.time_scale
    is_camera_moving,   \* self.is_camera_moving
    pc,                 \* position in run() / update_physics / check_collisions
    i, j,               \* loop indices of check_collisions (1-based)
    substeps, dt, k,    \* locals of update_physics; k = sub-steps completed
    next_id,            \* next fresh object identity
    frames,             \* physics frames completed
    events,             \* input events handled
    op,                 \* history: label of the last step taken
    pre,                \* history: bodies and messages when update_physics was called
    collision_calls,    \* history: check_collisions calls in the current frame
    hist,               \* history: per body id, positions recorded since its trail was last empty
    current_preset,     \* self.current_preset
    console,            \* the lines print() has written to standard output
    last_entry          \* history: <<ui_element, text>> of the last event with a text

vars == <<bodies, paused, interaction_mode, active_body, selected_body, edit_panel,
          collision_messages, time_scale, is_camera_moving, pc, i, j, substeps, dt, k,
          next_id, frames, events, op, pre, collision_calls, hist, current_preset, console,
          last_entry>>

ui_vars == <<paused, interaction_mode, active_body, selected_body, edit_panel,
             time_scale, is_camera_moving>>
loop_vars == <<i, j, substeps, dt, k, events>>
out_vars == <<current_preset, console, last_entry>>

Ids(bs) == {bs[n].id : n \in 1..Len(bs)}
IndexOf(bs, id) == IF id \in Ids(bs) THEN CHOOSE n \in 1..Len(bs) : bs[n].id = id ELSE 0

NoPre == [bodies |-> <<>>, messages |-> <<>>, valid |-> FALSE]

\* --------------------------------------------------------- check_collisions
\* distance = np.linalg.norm(body1.position - body2.position)
Distance(b1, b2) == ISqrt(Norm2(VSub(b1.position, b2.position)))

collision_threshold(b1, b2) == (b1.base_radius + b2.base_radius) * CollisionScale

Collides(b1, b2) == Distance(b1, b2) < collision_threshold(b1, b2)

\* mutant of smaller_idx: the larger body is taken for the smaller one
smaller_idx_larger(bs, ii, jj) == IF bs[ii].mass > bs[jj].mass THEN ii ELSE jj

\* mutant of smaller_idx: on equal masses the earlier body is removed
smaller_idx_tie_first(bs, ii, jj) == IF bs[ii].mass <= bs[jj].mass THEN ii ELSE jj

\* mutant of smaller_idx: body1 is removed whatever the masses
smaller_idx_body1(bs, ii, jj) == ii

\* index of the body that is removed when bodies[ii] and bodies[jj] collide
smaller_idx(bs, ii, jj) == IF bs[ii].mass < bs[jj].mass THEN ii ELSE jj

larger_idx(bs, ii, jj) == IF bs[ii].mass < bs[jj].mass THEN jj ELSE ii

\* mutant of message_text: the survivor is named first
message_text_swapped(smaller, larger) == <<larger.name, smaller.name>>

\* f"{smaller.name} collided into {larger.name}": the two names, in this order
message_text(smaller, larger) == <<smaller.name, larger.name>>

\* mutant of AfterRemoval: the inner loop goes on with j + 1 after a removal
AfterRemoval_next_j(ii, jj) == <<ii, jj + 1>>

\* indices with which the scan goes on after a removal (break, then continue)
AfterRemoval(ii, jj) == <<ii, ii + 1>>

\* one iteration of the loops of check_collisions
CheckCollisionsStep ==
    /\ pc = "collide"
    /\ i <= Len(bodies)
    /\ IF j > Len(bodies)
       THEN \* the inner loop ran out: else-branch, i += 1
            /\ i' = i + 1
            /\ j' = i + 2
            /\ op' = "scan_next_i"
            /\ UNCHANGED <<bodies, collision_messages, selected_body, edit_panel>>
       ELSE IF Collides(bodies[i], bodies[j])
       THEN LET s == smaller_idx(bodies, i, j)
                l == larger_idx(bodies, i, j)
                closes == selected_body = bodies[s].id /\ edit_panel
            IN  /\ collision_messages' =
                      <<message_text(bodies[s], bodies[l])>> \o collision_messages
                /\ bodies' = RemoveAt(bodies, s)
                /\ selected_body' = IF closes THEN None ELSE selected_body
                /\ edit_panel' = IF closes THEN FALSE ELSE edit_panel
                /\ i' = AfterRemoval(i, j)[1]
                /\ j' = AfterRemoval(i, j)[2]
                /\ op' = "scan_remove"
       ELSE /\ j' = j + 1
            /\ i' = i
            /\ op' = "scan_next_j"
            /\ UNCHANGED <<bodies, collision_messages, selected_body, edit_panel>>
    /\ UNCHANGED <<paused, interaction_mode, active_body, time_scale, is_camera_moving,
                   pc, substeps, dt, k, next_id, frames, events, pre, collision_calls, hist>>
    /\ UNCHANGED out_vars

\* the outer loop condition fails: check_collisions returns to update_physics
CheckCollisionsReturn ==
    /\ pc = "collide"
    /\ i > Len(bodies)
    /\ pc' = "substeps"
    /\ op' = "scan_return"
    /\ UNCHANGED out_vars
    /\ UNCHANGED <<bodies, ui_vars, collision_messages, loop_vars, next_id, frames,
                   pre, collision_calls, hist>>

\* ------------------------------------------------------------ update_physics
\* mutant of PhysicsRuns: the pause flag is not looked at
PhysicsRuns_ignores_pause == interaction_mode # "drag_body"

\* mutant of PhysicsRuns: a held body does not stop the physics
PhysicsRuns_ignores_drag == ~paused

\* the guard of update_physics
PhysicsRuns == ~paused /\ interaction_mode # "drag_body"

\* update_physics is called and its guard holds: check_collisions is entered
UpdatePhysicsEnter(max_frames) ==
    /\ pc = "events"
    /\ PhysicsRuns
    /\ frames < max_frames
    /\ pc' = "collide"
    /\ i' = 1
    /\ j' = 2
    /\ k' = 0
    /\ pre' = [bodies |-> bodies, messages |-> collision_messages, valid |-> TRUE]
    /\ collision_calls' = 1
    /\ op' = "physics_enter"
    /\ UNCHANGED out_vars
    /\ UNCHANGED <<bodies, ui_vars, collision_messages, substeps, dt, next_id, frames,
                   events, hist>>

\* update_physics is called and its guard fails: the call does nothing
UpdatePhysicsSkip ==
    /\ pc = "events"
    /\ ~PhysicsRuns
    /\ pc' = "camera"
    /\ op' = "physics_skip"
    /\ UNCHANGED out_vars
    /\ pre' = [bodies |-> bodies, messages |-> collision_messages, valid |-> TRUE]
    /\ collision_calls' = 0
    /\ UNCHANGED <<bodies, ui_vars, collision_messages, loop_vars, next_id, frames, hist>>

\* mutant of has_moon: the name is compared without regard to case
has_moon_any_case(bs) == \E n \in 1..Len(bs) : bs[n].name \in {"Moon", "moon", "MOON"}

\* any(body.name == "Moon" for body in self.bodies)
has_moon(bs) == \E n \in 1..Len(bs) : bs[n].name = "Moon"

SubstepCount(bs) == IF has_moon(bs) THEN SubstepsMoon ELSE SubstepsDefault

\* mutant of AfterSubstep: collisions are checked again after every sub-step
AfterSubstep_recheck(done, total) ==
    IF done = 0 THEN "kick1" ELSE IF done < total THEN "collide" ELSE "trail"

\* mutant of AfterSubstep: the loop ends one sub-step early
AfterSubstep_one_short(done, total) == IF done < total - 1 THEN "kick1" ELSE "trail"

\* where update_physics goes when `done` of `total` sub-steps are complete
AfterSubstep(done, total) == IF done < total THEN "kick1" ELSE "trail"

\* substeps and dt are chosen after check_collisions has returned
SelectSubsteps ==
    /\ pc = "substeps"
    /\ substeps' = SubstepCount(bodies)
    /\ dt' = Div(TIME_STEP * time_scale, SubstepCount(bodies))
    /\ k' = 0
    /\ pc' = AfterSubstep(0, SubstepCount(bodies))
    /\ op' = "select_substeps"
    /\ UNCHANGED out_vars
    /\ UNCHANGED <<bodies, ui_vars, collision_messages, i, j, next_id, frames, events,
                   pre, collision_calls, hist>>

\* mutant of KickBody: the body is also moved as soon as it has been kicked
KickBody_moves(bs, n, step) ==
    LET f == calculate_forces(bs, n)
        acceleration == VDiv(f, bs[n].mass)
        velocity == VAdd(bs[n].velocity, VScale(acceleration, Div(step, 2)))
    IN  [bs[n] EXCEPT !.force_vector = f,
                      !.velocity = velocity,
                      !.position = VAdd(@, VScale(velocity, step))]

\* calculate_forces, then velocity += force / mass * (dt / 2), for body n
KickBody(bs, n, step) ==
    LET f == calculate_forces(bs, n)
        acceleration == VDiv(f, bs[n].mass)
    IN  [bs[n] EXCEPT !.force_vector = f,
                      !.velocity = VAdd(@, VScale(acceleration, Div(step, 2)))]

\* for body in self.bodies: kick, in list order from body n on
RECURSIVE KickAll(_, _, _)
KickAll(bs, n, step) ==
    IF n > Len(bs) THEN bs
    ELSE KickAll([bs EXCEPT ![n] = KickBody(bs, n, step)], n + 1, step)

\* mutant of DriftBody: the trail is extended in every sub-step
DriftBody_with_trail(b, step) ==
    LET moved == [b EXCEPT !.position = VAdd(@, VScale(b.velocity, step))]
    IN  [moved EXCEPT !.trail = Append(@, moved.position)]

\* position += velocity * dt
DriftBody(b, step) == [b EXCEPT !.position = VAdd(@, VScale(b.velocity, step))]

DriftAll(bs, step) == [n \in 1..Len(bs) |-> DriftBody(bs[n], step)]

\* first loop of a sub-step
Kick1 ==
    /\ pc = "kick1"
    /\ bodies' = KickAll(bodies, 1, dt)
    /\ pc' = "drift"
    /\ op' = "kick1"
    /\ UNCHANGED out_vars
    /\ UNCHANGED <<ui_vars, collision_messages, loop_vars, next_id, frames, pre,
                   collision_calls, hist>>

\* second loop of a sub-step
Drift ==
    /\ pc = "drift"
    /\ bodies' = DriftAll(bodies, dt)
    /\ pc' = "kick2"
    /\ op' = "drift"
    /\ UNCHANGED out_vars
    /\ UNCHANGED <<ui_vars, collision_messages, loop_vars, next_id, frames, pre,
                   collision_calls, hist>>

\* third loop of a sub-step; the sub-step is complete
Kick2 ==
    /\ pc = "kick2"
    /\ bodies' = KickAll(bodies, 1, dt)
    /\ k' = k + 1
    /\ pc' = AfterSubstep(k + 1, substeps)
    /\ op' = "kick2"
    /\ UNCHANGED out_vars
    /\ UNCHANGED <<ui_vars, collision_messages, i, j, substeps, dt, next_id, frames,
                   events, pre, collision_calls, hist>>

TrailAll(bs) == [n \in 1..Len(bs) |-> update_trail(bs[n])]

\* history: the position each live body has when the frame ends
Recorded(h, bs) ==
    [id \in Ids(bs) |->
        LET b == bs[IndexOf(bs, id)]
        IN  Append(IF id \in DOMAIN h THEN h[id] ELSE <<>>, b.position)]

\* for body in self.bodies: body.update_trail(); update_physics returns
UpdateTrails ==
    /\ pc = "trail"
    /\ bodies' = TrailAll(bodies)
    /\ hist' = Recorded(hist, bodies)
    /\ frames' = frames + 1
    /\ pc' = "camera"
    /\ op' = "update_trails"
    /\ UNCHANGED out_vars
    /\ UNCHANGED <<ui_vars, collision_messages, loop_vars, next_id, pre, collision_calls>>

\* ------------------------------------------------------- rest of run()'s loop
\* update_camera_animation: a moving camera either arrives or keeps moving
UpdateCameraAnimation ==
    /\ pc = "camera"
    /\ is_camera_moving' \in (IF is_camera_moving THEN {TRUE, FALSE} ELSE {FALSE})
    /\ pc' = "draw"
    /\ op' = "camera"
    /\ UNCHANGED out_vars
    /\ UNCHANGED <<bodies, paused, interaction_mode, active_body, selected_body,
                   edit_panel, collision_messages, time_scale, loop_vars, next_id,
                   frames, pre, collision_calls, hist>>

\* draw -> draw_collision_messages: the messages whose 3 s are over are popped;
\* they are the oldest ones, a suffix of the list
Draw ==
    /\ pc = "draw"
    /\ \E keep \in 0..Len(collision_messages) :
          collision_messages' = SubSeq(collision_messages, 1, keep)
    /\ pc' = "input"
    /\ pre' = NoPre
    /\ op' = "draw"
    /\ UNCHANGED out_vars
    /\ UNCHANGED <<bodies, ui_vars, loop_vars, next_id, frames, collision_calls, hist>>

\* the head of handle_input, before the event loop
HandleInputBegin ==
    /\ pc = "input"
    /\ interaction_mode' = IF is_camera_moving THEN "idle" ELSE interaction_mode
    /\ pc' = "events"
    /\ op' = "input"
    /\ UNCHANGED out_vars
    /\ UNCHANGED <<bodies, paused, active_body, selected_body, edit_panel,
                   collision_messages, time_scale, is_camera_moving, loop_vars, next_id,
                   frames, pre, collision_calls, hist>>

\* --------------------------------------------------- events of handle_input
\* what the events below leave alone
EventFrame ==
    /\ events < MaxEvents
    /\ events' = events + 1
    /\ UNCHANGED <<pc, i, j, substeps, dt, k, frames, pre, collision_calls, collision_messages>>

\* mutant of close_edit_panel: the panel goes, the selection stays
close_edit_panel_keeps_selection == <<selected_body, FALSE>>

\* close_edit_panel: <<selected_body, edit_panel>> after the call
close_edit_panel == IF edit_panel THEN <<None, FALSE>> ELSE <<selected_body, edit_panel>>

\* MOUSEBUTTONDOWN on the velocity arrow tip of body n
MouseDownVector(n) ==
    /\ pc = "events"
    /\ ~is_camera_moving
    /\ bodies[n].velocity # <<0, 0>>
    /\ interaction_mode' = "drag_vector"
    /\ active_body' = bodies[n].id
    /\ selected_body' = bodies[n].id
    /\ edit_panel' = TRUE
    /\ paused' = TRUE
    /\ op' = "mouse_down_vector"
    /\ UNCHANGED out_vars
    /\ UNCHANGED <<bodies, time_scale, is_camera_moving, next_id, hist>>
    /\ EventFrame

\* MOUSEBUTTONDOWN on body n
MouseDownBody(n) ==
    /\ pc = "events"
    /\ ~is_camera_moving
    /\ interaction_mode' = "drag_body"
    /\ active_body' = bodies[n].id
    /\ selected_body' = bodies[n].id
    /\ edit_panel' = TRUE
    /\ paused' = TRUE
    /\ op' = "mouse_down_body"
    /\ UNCHANGED out_vars
    /\ UNCHANGED <<bodies, time_scale, is_camera_moving, next_id, hist>>
    /\ EventFrame

\* MOUSEBUTTONDOWN on empty space
MouseDownEmpty ==
    /\ pc = "events"
    /\ ~is_camera_moving
    /\ interaction_mode' = "pan_camera"
    /\ selected_body' = close_edit_panel[1]
    /\ edit_panel' = close_edit_panel[2]
    /\ op' = "mouse_down_empty"
    /\ UNCHANGED out_vars
    /\ UNCHANGED <<bodies, paused, active_body, time_scale, is_camera_moving, next_id, hist>>
    /\ EventFrame

\* MOUSEBUTTONUP
MouseUp ==
    /\ pc = "events"
    /\ interaction_mode' = "idle"
    /\ active_body' = None
    /\ op' = "mouse_up"
    /\ UNCHANGED out_vars
    /\ UNCHANGED <<bodies, paused, selected_body, edit_panel, time_scale,
                   is_camera_moving, next_id, hist>>
    /\ EventFrame

\* mutant of DragBodyTo: the trail is kept
DragBodyTo_keeps_trail(bs, id, position) ==
    [n \in 1..Len(bs) |-> IF bs[n].id = id THEN [bs[n] EXCEPT !.position = position] ELSE bs[n]]

\* self.active_body.position = ...; self.active_body.trail = []
DragBodyTo(bs, id, position) ==
    [n \in 1..Len(bs) |->
        IF bs[n].id = id THEN [bs[n] EXCEPT !.position = position, !.trail = <<>>]
        ELSE bs[n]]

\* MOUSEMOTION while dragging a body: the body follows the mouse
MouseMotionDragBody(position) ==
    /\ pc = "events"
    /\ interaction_mode = "drag_body"
    /\ active_body # None
    /\ ~is_camera_moving
    /\ bodies' = DragBodyTo(bodies, active_body, position)
    /\ hist' = [id \in DOMAIN hist \ {active_body} |-> hist[id]]
    /\ op' = "drag_body"
    /\ UNCHANGED out_vars
    /\ UNCHANGED <<ui_vars, next_id>>
    /\ EventFrame

\* self.active_body.velocity = ...
DragVectorTo(bs, id, velocity) ==
    [n \in 1..Len(bs) |-> IF bs[n].id = id THEN [bs[n] EXCEPT !.velocity = velocity] ELSE bs[n]]

\* MOUSEMOTION while dragging a velocity arrow
MouseMotionDragVector(velocity) ==
    /\ pc = "events"
    /\ interaction_mode = "drag_vector"
    /\ active_body # None
    /\ ~is_camera_moving
    /\ bodies' = DragVectorTo(bodies, active_body, velocity)
    /\ op' = "drag_vector"
    /\ UNCHANGED out_vars
    /\ UNCHANGED <<ui_vars, next_id, hist>>
    /\ EventFrame

\* K_SPACE, or the play button
TogglePause ==
    /\ pc = "events"
    /\ paused' = ~paused
    /\ op' = "toggle_pause"
    /\ UNCHANGED out_vars
    /\ UNCHANGED <<bodies, interaction_mode, active_body, selected_body, edit_panel,
                   time_scale, is_camera_moving, next_id, hist>>
    /\ EventFrame

\* f"Planet {len(self.bodies)}"
PlanetName(n) == <<"Planet 0", "Planet 1", "Planet 2", "Planet 3", "Planet 4", "Planet 5">>[n + 1]

\* add_random_body with the values drawn for it
add_random_body(bs, id, mass, position, velocity, base_radius) ==
    Append(bs, CelestialBody(id, PlanetName(Len(bs)), mass, position, velocity, base_radius))

\* mutant of DeleteSelected: the last body of the list is removed
DeleteSelected_last(bs, id) == IF id \in Ids(bs) THEN RemoveAt(bs, Len(bs)) ELSE bs

\* the delete button: self.bodies.remove(self.selected_body)
DeleteSelected(bs, id) == IF id \in Ids(bs) THEN RemoveAt(bs, IndexOf(bs, id)) ELSE bs

\* UI_BUTTON_PRESSED on the delete button of the edit panel
DeleteButton ==
    /\ pc = "events"
    /\ edit_panel
    /\ bodies' = DeleteSelected(bodies, selected_body)
    /\ selected_body' = IF selected_body \in Ids(bodies) THEN None ELSE selected_body
    /\ edit_panel' = (selected_body \notin Ids(bodies))
    /\ op' = "delete"
    /\ UNCHANGED out_vars
    /\ UNCHANGED <<paused, interaction_mode, active_body, time_scale, is_camera_moving,
                   next_id, hist>>
    /\ EventFrame

\* ---- UI_TEXT_ENTRY_FINISHED: a text is a sequence of one-character strings
\* event.text.replace(',', '.')
ReplaceComma(text) == [n \in 1..Len(text) |-> IF text[n] = "," THEN "." ELSE text[n]]

RECURSIVE LStrip(_)
LStrip(text) == IF text # <<>> /\ text[1] = " " THEN LStrip(Tail(text)) ELSE text

RECURSIVE RStrip(_)
RStrip(text) ==
    IF text # <<>> /\ text[Len(text)] = " " THEN RStrip(SubSeq(text, 1, Len(text) - 1)) ELSE text

\* str.strip()
strip(text) == RStrip(LStrip(text))

DigitChars == <<"0", "1", "2", "3", "4", "5", "6", "7", "8", "9">>
IsDigit(c) == \E d \in 1..10 : DigitChars[d] = c
DigitValue(c) == (CHOOSE d \in 1..10 : DigitChars[d] = c) - 1

\* the number a sequence of digits writes
RECURSIVE DigitsValue(_)
DigitsValue(ds) ==
    IF ds = <<>> THEN 0
    ELSE 10 * DigitsValue(SubSeq(ds, 1, Len(ds) - 1)) + DigitValue(ds[Len(ds)])

RECURSIVE Pow10(_)
Pow10(n) == IF n = 0 THEN 1 ELSE 10 * Pow10(n - 1)

\* float(text) for decimal literals: white space stripped, an optional sign,
\* digits with at most one point and at least one digit. ok = FALSE is
\* ValueError. The value is cut to a whole number of model units.
float(text) ==
    LET t == strip(text)
        signed == t # <<>> /\ t[1] \in {"+", "-"}
        digits == IF signed THEN Tail(t) ELSE t
        points == {n \in 1..Len(digits) : digits[n] = "."}
        point == IF points = {} THEN Len(digits) + 1 ELSE CHOOSE n \in points : TRUE
        whole == SubSeq(digits, 1, point - 1)
        fraction == SubSeq(digits, point + 1, Len(digits))
        ok == /\ Cardinality(points) <= 1
              /\ \A n \in 1..Len(whole) : IsDigit(whole[n])
              /\ \A n \in 1..Len(fraction) : IsDigit(fraction[n])
              /\ Len(whole) + Len(fraction) > 0
        magnitude == DigitsValue(whole \o fraction) \div Pow10(Len(fraction))
    IN  IF ok
        THEN [ok |-> TRUE, val |-> IF signed /\ t[1] = "-" THEN 0 - magnitude ELSE magnitude]
        ELSE [ok |-> FALSE, val |-> 0]

\* the Python string of a text
AsString(text) ==
    CASE text = <<"M", "o", "o", "n">> -> "Moon"
      [] text = <<"a", "b", "c">> -> "abc"
      [] text = <<"X">> -> "X"
      [] text = <<"1", ".", ".", "2">> -> "1..2"
      [] text = <<"5">> -> "5"
      [] text = <<"0">> -> "0"
      [] text = <<"7">> -> "7"
      [] text = <<"-", "3">> -> "-3"
      [] text = <<"2", ",", "0">> -> "2,0"

\* the speed entry: velocity of magnitude val along atan2(vy, vx)
SetSpeed(velocity, val) ==
    IF velocity = <<0, 0>> THEN <<val, 0>>
    ELSE VDiv(VScale(velocity, val), ISqrt(Norm2(velocity)))

\* the try block after val = float(...): the entry that finished decides
EditNumber(b, element, val) ==
    CASE element = "mass_entry" -> [b EXCEPT !.mass = val]
      [] element = "vx_entry" -> [b EXCEPT !.velocity[1] = val]
      [] element = "vy_entry" -> [b EXCEPT !.velocity[2] = val]
      [] element = "speed_entry" -> [b EXCEPT !.velocity = SetSpeed(@, val)]
      [] OTHER -> b

\* mutant of EditInvalid: an invalid number sets the mass to 0
EditInvalid_zero_mass(b, element, text) ==
    IF element = "name_entry"
    THEN IF strip(text) # <<>> THEN [b EXCEPT !.name = AsString(strip(text))] ELSE b
    ELSE IF element = "mass_entry" THEN [b EXCEPT !.mass = 0] ELSE b

\* the except ValueError block, on the body
EditInvalid(b, element, text) ==
    IF element = "name_entry"
    THEN IF strip(text) # <<>> THEN [b EXCEPT !.name = AsString(strip(text))] ELSE b
    ELSE b

\* the except ValueError block, on standard output
InvalidPrinted(out, element) ==
    IF element = "name_entry" THEN out ELSE Append(out, "Invalid number input")

\* UI_TEXT_ENTRY_FINISHED on an entry of the edit panel
TextEntry(element, text) ==
    /\ pc = "events"
    /\ selected_body # None
    /\ edit_panel
    /\ LET val == float(ReplaceComma(text))
           n == IndexOf(bodies, selected_body)
       IN  /\ bodies' = IF n = 0 THEN bodies
                        ELSE IF val.ok
                        THEN [bodies EXCEPT ![n] = EditNumber(@, element, val.val)]
                        ELSE [bodies EXCEPT ![n] = EditInvalid(@, element, text)]
           /\ console' = IF val.ok THEN console ELSE InvalidPrinted(console, element)
    /\ op' = "text_entry"
    /\ last_entry' = <<element, text>>
    /\ UNCHANGED <<ui_vars, next_id, hist, current_preset>>
    /\ EventFrame

\* UI_HORIZONTAL_SLIDER_MOVED on the time slider
TimeSlider(value) ==
    /\ pc = "events"
    /\ time_scale' = value
    /\ op' = "time_slider"
    /\ UNCHANGED out_vars
    /\ UNCHANGED <<bodies, paused, interaction_mode, active_body, selected_body,
                   edit_panel, is_camera_moving, next_id, hist>>
    /\ EventFrame

\* the "Move To Center Of Mass" button: center_camera_on_com
CenterCamera ==
    /\ pc = "events"
    /\ is_camera_moving' = TRUE
    /\ op' = "center_camera"
    /\ UNCHANGED out_vars
    /\ UNCHANGED <<bodies, paused, interaction_mode, active_body, selected_body,
                   edit_panel, time_scale, next_id, hist>>
    /\ EventFrame

\* UI_BUTTON_PRESSED on the add-body button
AddBody(mass, position, velocity, base_radius) ==
    /\ pc = "events"
    /\ Len(bodies) < MaxBodies
    /\ bodies' = add_random_body(bodies, next_id, mass, position, velocity, base_radius)
    /\ next_id' = next_id + 1
    /\ op' = "add_body"
    /\ UNCHANGED out_vars
    /\ UNCHANGED <<ui_vars, hist>>
    /\ EventFrame

\* ------------------------------------------------------------------ presets
\* sum over the bodies of f(body) * body.mass, for a vector field f
RECURSIVE MassWeightedSum(_, _)
MassWeightedSum(bs, field) ==
    IF bs = <<>> THEN <<0, 0>>
    ELSE VAdd(VScale(IF field = "position" THEN bs[1].position ELSE bs[1].velocity, bs[1].mass),
              MassWeightedSum(Tail(bs), field))

RECURSIVE TotalMass(_)
TotalMass(bs) == IF bs = <<>> THEN 0 ELSE bs[1].mass + TotalMass(Tail(bs))

\* mutant of _correct_center_of_mass_drift_for_bodies: the sums are subtracted
\* without being divided by the total mass
_correct_center_of_mass_drift_undivided(bs) ==
    IF bs = <<>> \/ TotalMass(bs) <= 0 THEN bs
    ELSE [n \in 1..Len(bs) |->
            [bs[n] EXCEPT !.position = VSub(@, MassWeightedSum(bs, "position")),
                          !.velocity = VSub(@, MassWeightedSum(bs, "velocity"))]]

\* _correct_center_of_mass_drift_for_bodies
_correct_center_of_mass_drift_for_bodies(bs) ==
    IF bs = <<>> \/ TotalMass(bs) <= 0 THEN bs
    ELSE LET center_of_mass == VDiv(MassWeightedSum(bs, "position"), TotalMass(bs))
             system_velocity == VDiv(MassWeightedSum(bs, "velocity"), TotalMass(bs))
         IN  [n \in 1..Len(bs) |->
                [bs[n] EXCEPT !.position = VSub(@, center_of_mass),
                              !.velocity = VSub(@, system_velocity)]]

\* the keys of self.presets, which are the options of the preset dropdown
Presets == {"Solar System", "Sun Earth Moon", "Four Star Ballet", "Four random bodies", "Custom"}

\* create_solar_system_data, cut down to the Sun and one planet at perihelion
create_solar_system_data(id) ==
    << CelestialBody(id, "Sun", 3, <<0, 0>>, <<0, 0>>, 6),
       CelestialBody(id + 1, "Earth", 1, <<AU, 0>>, <<0, 1>>, 2) >>

\* create_sun_earth_moon_data_MODIFIED
create_sun_earth_moon_data_MODIFIED(id) ==
    _correct_center_of_mass_drift_for_bodies(
        << CelestialBody(id, "Sun", 3, <<0, 0>>, <<0, 0>>, 6),
           CelestialBody(id + 1, "Earth", 2, <<AU, 0>>, <<0, 1>>, 2),
           CelestialBody(id + 2, "Moon", 1, <<AU, 75>>, <<1, 1>>, 1) >>)

\* create_four_star_ballet_data
create_four_star_ballet_data(id) ==
    _correct_center_of_mass_drift_for_bodies(
        << CelestialBody(id, "Star 1", 1, <<1795, 0>>, <<0, 1>>, 5),
           CelestialBody(id + 1, "Star 2", 1, <<0, 1795>>, <<-1, 0>>, 5),
           CelestialBody(id + 2, "Star 3", 1, <<-1795, 0>>, <<0, -1>>, 5),
           CelestialBody(id + 3, "Star 4", 1, <<0, -1795>>, <<1, 0>>, 5) >>)

\* what random.uniform returns in one call of create_chaos_data: for each body
\* a mass, a position and a velocity
ChaosDraws ==
    { << [mass |-> 2, position |-> <<-900, 300>>, velocity |-> <<1, 0>>],
         [mass |-> 1, position |-> <<700, -400>>, velocity |-> <<0, -1>>] >>,
      << [mass |-> 1, position |-> <<500, 600>>, velocity |-> <<0, 1>>],
         [mass |-> 2, position |-> <<-300, 200>>, velocity |-> <<-1, 0>>] >> }

\* create_chaos_data, cut down to two bodies, with the values `draws` drawn for them
create_chaos_data(id, draws) ==
    [n \in 1..Len(draws) |->
        CelestialBody(id + n - 1, IF n = 1 THEN "Body 0" ELSE "Body 1", draws[n].mass,
                      draws[n].position, draws[n].velocity, 5)]

\* self.presets[preset_name]()
PresetData(preset_name, id, draws) ==
    CASE preset_name = "Solar System" -> create_solar_system_data(id)
      [] preset_name = "Sun Earth Moon" -> create_sun_earth_moon_data_MODIFIED(id)
      [] preset_name = "Four Star Ballet" -> create_four_star_ballet_data(id)
      [] preset_name = "Four random bodies" -> create_chaos_data(id, draws)
      [] preset_name = "Custom" -> <<>>

\* if preset_name in self.presets
KnownPreset(preset_name) == preset_name \in Presets

\* load_preset(preset_name)
LoadPreset(preset_name) ==
    /\ pc = "events"
    /\ events < MaxEvents
    /\ events' = events + 1
    /\ collision_messages' = <<>>
    /\ current_preset' = preset_name
    /\ IF KnownPreset(preset_name)
       THEN /\ \E draws \in ChaosDraws : bodies' = PresetData(preset_name, next_id, draws)
            /\ next_id' = next_id + Len(bodies')
            /\ is_camera_moving' = FALSE
            /\ paused' = TRUE
            /\ time_scale' = IF preset_name = "Four Star Ballet" THEN 3 ELSE time_scale
            /\ selected_body' = close_edit_panel[1]
            /\ edit_panel' = close_edit_panel[2]
       ELSE /\ bodies' = <<>>
            /\ UNCHANGED <<next_id, is_camera_moving, paused, time_scale, selected_body, edit_panel>>
    /\ hist' = <<>>
    /\ op' = "load_preset"
    /\ last_entry' = <<"preset_dropdown", preset_name>>
    /\ UNCHANGED <<interaction_mode, active_body, console, pc, i, j, substeps, dt, k,
                   frames, pre, collision_calls>>

\* ------------------------------------------------------------------ inputs
\* positions the mouse drags a body to
DragPositions == {<<0, 400>>, <<81, 0>>}
\* velocities the mouse drags a velocity arrow to
DragVelocities == {<<0, 2>>}
\* values of the time slider
TimeScales == {1, 2}

\* body lists the program starts from: two bodies apart, three bodies of which
\* the first two overlap, and the empty list of the "Custom" preset
StartLists ==
    { << CelestialBody(1, "Body 0", 2, <<0, 0>>, <<0, 1>>, 4),
         CelestialBody(2, "Body 1", 2, <<100, 0>>, <<0, 0>>, 4) >>,
      << CelestialBody(1, "Body 0", 1, <<0, 0>>, <<1, 0>>, 4),
         CelestialBody(2, "Body 1", 2, <<50, 0>>, <<0, 0>>, 4),
         CelestialBody(3, "Body 2", 1, <<0, 300>>, <<0, 0>>, 5) >>,
      << >> }

\* a state of the program between two events: body list bs with trails as
\* they are in bs, `done` frames completed and `h` recorded
StartIn(bs, is_paused, mode, active, sel, scale, done, h) ==
    /\ bodies = bs
    /\ paused = is_paused
    /\ interaction_mode = mode
    /\ active_body = active
    /\ selected_body = sel
    /\ edit_panel = (sel # None)
    /\ collision_messages = <<>>
    /\ time_scale = scale
    /\ is_camera_moving = FALSE
    /\ pc = "input"
    /\ i = 1
    /\ j = 2
    /\ substeps = SubstepsDefault
    /\ dt = 0
    /\ k = 0
    /\ next_id = Len(bs) + 1
    /\ frames = done
    /\ events = 0
    /\ op = "init"
    /\ pre = NoPre
    /\ collision_calls = 0
    /\ hist = h
    /\ current_preset = "Solar System"
    /\ console = <<>>
    /\ last_entry = <<>>

\* a state in which nothing is selected or held and the simulation is paused,
\* with body list bs, the program at position `at` and `done` sub-steps done
StartAt(bs, at, done) ==
    /\ bodies = bs
    /\ paused = (at = "built")
    /\ interaction_mode = "idle"
    /\ active_body = None
    /\ selected_body = None
    /\ edit_panel = FALSE
    /\ collision_messages = <<>>
    /\ time_scale = 1
    /\ is_camera_moving = FALSE
    /\ pc = at
    /\ i = Len(bs) + 1
    /\ j = Len(bs) + 2
    /\ substeps = SubstepCount(bs)
    /\ dt = Div(TIME_STEP, SubstepCount(bs))
    /\ k = done
    /\ next_id = Len(bs) + 1
    /\ frames = 0
    /\ events = 0
    /\ op = "init"
    /\ pre = NoPre
    /\ collision_calls = IF at = "built" THEN 0 ELSE 1
    /\ hist = <<>>
    /\ current_preset = "Solar System"
    /\ console = <<>>
    /\ last_entry = <<>>

\* the state in which run() starts with body list bs
Start(bs, is_paused, sel) == StartIn(bs, is_paused, "idle", None, sel, 1, 0, <<>>)

\* ---------------------------------------------------------- the whole program
Init == \E bs \in StartLists, is_paused \in BOOLEAN : Start(bs, is_paused, None)

Event ==
    \/ \E n \in 1..Len(bodies) : MouseDownVector(n)
    \/ \E n \in 1..Len(bodies) : MouseDownBody(n)
    \/ MouseDownEmpty
    \/ MouseUp
    \/ \E p \in DragPositions : MouseMotionDragBody(p)
    \/ \E v \in DragVelocities : MouseMotionDragVector(v)
    \/ TogglePause
    \/ DeleteButton
    \/ AddBody(5, <<0, 2000>>, <<0, 0>>, 4)
    \/ \E t \in TimeScales : TimeSlider(t)
    \/ CenterCamera
    \/ \E preset_name \in Presets : LoadPreset(preset_name)

Frame(max_frames) ==
    \/ UpdatePhysicsEnter(max_frames)
    \/ UpdatePhysicsSkip
    \/ CheckCollisionsStep
    \/ CheckCollisionsReturn
    \/ SelectSubsteps
    \/ Kick1
    \/ Drift
    \/ Kick2
    \/ UpdateTrails

Next ==
    \/ HandleInputBegin
    \/ Event
    \/ Frame(MaxFrames)
    \/ UpdateCameraAnimation
    \/ Draw

Spec == Init /\ [][Next]_vars

\* steps of run()'s loop other than events and update_physics
Loop ==
    \/ HandleInputBegin
    \/ UpdateCameraAnimation
    \/ Draw

\* ------------------------------------------------ edits in the edit panel
EntryElements == {"mass_entry", "vx_entry", "vy_entry", "speed_entry", "name_entry"}

\* texts typed into an entry: numbers (one with a comma, one with blanks, zero,
\* a negative one), texts that are no number, the empty text
EntryTexts ==
    { <<"5">>, <<"0">>, <<"-", "3">>, <<"2", ",", "0">>, <<" ", "7", " ">>,
      <<"a", "b", "c">>, <<"M", "o", "o", "n">>, <<" ", "X", " ">>,
      <<"1", ".", ".", "2">>, <<>> }

EditEvent ==
    \/ \E n \in 1..Len(bodies) : MouseDownVector(n)
    \/ \E n \in 1..Len(bodies) : MouseDownBody(n)
    \/ MouseDownEmpty
    \/ MouseUp
    \/ \E element \in EntryElements, text \in EntryTexts : TextEntry(element, text)
    \/ DeleteButton

\* load_preset leaves the simulation paused
InitEdit == \E bs \in StartLists : Start(bs, TRUE, None)

NextEdit == Loop \/ EditEvent \/ UpdatePhysicsSkip

SpecEdit == InitEdit /\ [][NextEdit]_vars

\* ------------------------------------------------- load_preset and its names
\* names load_preset is called with: the presets, and "Empty", which load_preset
\* and preset_pixel_scales name but self.presets does not have
PresetNames == Presets \cup {"Empty"}

PresetEvent ==
    \/ \E n \in 1..Len(bodies) : MouseDownBody(n)
    \/ MouseUp
    \/ TogglePause
    \/ \E preset_name \in PresetNames : LoadPreset(preset_name)

InitPreset == \E bs \in StartLists, is_paused \in BOOLEAN : Start(bs, is_paused, None)

NextPreset == Loop \/ PresetEvent \/ Frame(MaxFrames)

SpecPreset == InitPreset /\ [][NextPreset]_vars

\* ------------------------------------ mouse, space bar and frames on their own
MouseEvent ==
    \/ \E n \in 1..Len(bodies) : MouseDownVector(n)
    \/ \E n \in 1..Len(bodies) : MouseDownBody(n)
    \/ MouseDownEmpty
    \/ MouseUp
    \/ \E v \in DragVelocities : MouseMotionDragVector(v)
    \/ TogglePause

InitMouse == \E bs \in StartLists, is_paused \in BOOLEAN : Start(bs, is_paused, None)

NextMouse == Loop \/ MouseEvent \/ Frame(MaxFrames)

SpecMouse == InitMouse /\ [][NextMouse]_vars

\* ------------------- _correct_center_of_mass_drift_for_bodies on its own
DriftMasses == {1, 2, 5}
DriftPositions == {<<10, 0>>, <<-7, 3>>}
DriftVelocities == {<<0, 0>>, <<3, -1>>}

DriftListsOf(n) ==
    { [m \in 1..n |-> CelestialBody(m, PlanetName(m - 1), ms[m], ps[m], vs[m], 4)] :
        ms \in [1..n -> DriftMasses], ps \in [1..n -> DriftPositions],
        vs \in [1..n -> DriftVelocities] }

\* a create_*_data method passes the bodies it has built to the correction
CorrectDrift ==
    /\ pc = "built"
    /\ bodies' = _correct_center_of_mass_drift_for_bodies(bodies)
    /\ pre' = [bodies |-> bodies, messages |-> collision_messages, valid |-> TRUE]
    /\ pc' = "corrected"
    /\ op' = "correct_drift"
    /\ UNCHANGED <<ui_vars, collision_messages, loop_vars, next_id, frames, collision_calls,
                   hist, out_vars>>

InitDrift == \E n \in 0..MaxDriftBodies : \E bs \in DriftListsOf(n) : StartAt(bs, "built", 0)

NextDrift == CorrectDrift

SpecDrift == InitDrift /\ [][NextDrift]_vars

\* ------------------------------------------- the sub-steps of a frame on their own
\* bodies close and heavy enough for their attraction to show in model units,
\* two of the positions equal
ForceMasses == {200, 700}
ForcePositions == {<<0, 0>>, <<3, 4>>, <<30, 40>>}
ForceVelocities == {<<0, 0>>, <<1, 0>>}

\* the lists of n bodies over these masses and positions, moving together
ForceListsOf(n) ==
    { [m \in 1..n |-> CelestialBody(m, PlanetName(m - 1), ms[m], ps[m], v, 4)] :
        ms \in [1..n -> ForceMasses], ps \in [1..n -> ForcePositions],
        v \in ForceVelocities }

ForceLists == UNION { ForceListsOf(n) : n \in 1..MaxForceBodies }

\* inside update_physics, MaxForceSteps sub-steps before the end of the loop
InitForce == \E bs \in ForceLists : StartAt(bs, "kick1", SubstepsDefault - MaxForceSteps)

NextForce == Kick1 \/ Drift \/ Kick2 \/ UpdateTrails

SpecForce == InitForce /\ [][NextForce]_vars

\* ------------------------------------------------- check_collisions on its own
\* positions on a line with gaps just under, at and just over the threshold of
\* two bodies of radius 4, and one point at distance exactly 80 from the origin
ScanPositions == {<<0, 0>>, <<79, 0>>, <<80, 0>>, <<159, 0>>, <<48, 64>>}
ScanMasses == {10, 20}

\* the lists of n bodies "Planet 0", "Planet 1", ... over these positions and masses
ScanListsOf(n) ==
    { [m \in 1..n |-> CelestialBody(m, PlanetName(m - 1), ms[m], ps[m], <<0, 0>>, 4)] :
        ms \in [1..n -> ScanMasses], ps \in [1..n -> ScanPositions] }

ScanLists == UNION { ScanListsOf(n) : n \in 0..MaxScanBodies }

InitCollide == \E bs \in ScanLists, sel \in {None, 2} : Start(bs, FALSE, IF sel > Len(bs) THEN None ELSE sel)

NextCollide ==
    \/ HandleInputBegin
    \/ UpdatePhysicsEnter(1)
    \/ CheckCollisionsStep
    \/ CheckCollisionsReturn

SpecCollide == InitCollide /\ [][NextCollide]_vars

\* --------------------------------------------------- physics frames on their own
\* a close pair heavy enough to attract, a pair with a Moon, a pair whose Moon
\* overlaps the heavier body, a pair with a "moon", three bodies of which the
\* first two overlap, and no body at all
FrameLists ==
    { << CelestialBody(1, "Star 1", 7000, <<0, 0>>, <<0, -6>>, 4),
         CelestialBody(2, "Star 2", 7000, <<81, 0>>, <<0, 6>>, 4) >>,
      << CelestialBody(1, "Earth", 20, <<0, 0>>, <<0, 0>>, 4),
         CelestialBody(2, "Moon", 10, <<100, 0>>, <<0, 1>>, 4) >>,
      << CelestialBody(1, "Earth", 20, <<0, 0>>, <<0, 0>>, 4),
         CelestialBody(2, "Moon", 10, <<50, 0>>, <<0, 1>>, 4) >>,
      << CelestialBody(1, "Earth", 20, <<0, 0>>, <<0, 0>>, 4),
         CelestialBody(2, "moon", 10, <<100, 0>>, <<0, 1>>, 4) >>,
      << CelestialBody(1, "Body 0", 10, <<0, 0>>, <<1, 0>>, 4),
         CelestialBody(2, "Body 1", 20, <<50, 0>>, <<0, 0>>, 4),
         CelestialBody(3, "Body 2", 10, <<0, 300>>, <<0, 0>>, 5) >>,
      << >> }

InitFrame ==
    \E bs \in FrameLists, is_paused \in BOOLEAN,
       mode \in {"idle", "drag_body", "drag_vector"}, scale \in TimeScales :
        LET grabbed == IF mode = "idle" \/ bs = <<>> THEN None ELSE 1
        IN  StartIn(bs, is_paused, IF bs = <<>> THEN "idle" ELSE mode,
                    grabbed, grabbed, scale, 0, <<>>)

NextFrame == Loop \/ Frame(MaxRunFrames)

SpecFrame == InitFrame /\ [][NextFrame]_vars

\* ------------------------------------------------------------- many frames
\* a body that moves and a body that rests, too light to attract each other
LongList ==
    << CelestialBody(1, "Body 0", 1, <<1, 0>>, <<1, 0>>, 4),
       CelestialBody(2, "Body 1", 1, <<0, 90>>, <<0, 0>>, 4) >>

\* update_physics with its guard true
FrameRun(max_frames) ==
    \/ UpdatePhysicsEnter(max_frames)
    \/ CheckCollisionsStep
    \/ CheckCollisionsReturn
    \/ SelectSubsteps
    \/ Kick1
    \/ Drift
    \/ Kick2
    \/ UpdateTrails

InitLong == Start(LongList, FALSE, None)

NextLong == Loop \/ FrameRun(MaxLongFrames)

SpecLong == InitLong /\ [][NextLong]_vars

\* LongList after n frames at time scale 1: each body has moved n * TIME_STEP
\* times its velocity and has recorded every frame's position
PositionAfter(b, n) == VAdd(b.position, VScale(b.velocity, n * TIME_STEP))

AfterFrames(bs, n) ==
    [m \in 1..Len(bs) |->
        [bs[m] EXCEPT !.position = PositionAfter(bs[m], n),
                      !.trail = [f \in 1..Min(n, bs[m].max_trail_length) |->
                                    PositionAfter(bs[m], n - Min(n, bs[m].max_trail_length) + f)]]]

HistAfter(bs, n) ==
    [id \in Ids(bs) |-> [f \in 1..n |-> PositionAfter(bs[IndexOf(bs, id)], f)]]

\* SpecLong reaches the state SpecTrail starts from
LongReachesTrailStart ==
    (frames = TrailStartFrames /\ pc = "input") =>
        /\ bodies = AfterFrames(LongList, TrailStartFrames)
        /\ hist = HistAfter(LongList, TrailStartFrames)

\* ------------------------------------------- edits between running frames
\* a planet and its companion, too light and too far apart to attract or collide
RenameList ==
    << CelestialBody(1, "Earth", 2, <<0, 0>>, <<0, 0>>, 4),
       CelestialBody(2, "Luna", 1, <<100, 0>>, <<0, 1>>, 4) >>

RenameTexts == { <<"M", "o", "o", "n">>, <<"a", "b", "c">> }

RenameEvent ==
    \/ \E text \in RenameTexts : TextEntry("name_entry", text)
    \/ TextEntry("mass_entry", <<"5">>)
    \/ AddBody(5, <<0, 2000>>, <<0, 0>>, 4)
    \/ DeleteButton

\* the simulation runs and the edit panel of the second body is open
InitRename == StartIn(RenameList, FALSE, "idle", None, 2, 1, 0, <<>>)

NextRename == Loop \/ RenameEvent \/ FrameRun(MaxRunFrames)

SpecRename == InitRename /\ [][NextRename]_vars

\* ------------------------------------------- frames and edits on long trails
TrailEvent ==
    \/ \E n \in 1..Len(bodies) : MouseDownBody(n)
    \/ \E p \in DragPositions : MouseMotionDragBody(p)
    \/ MouseUp
    \/ TogglePause

\* between two events after TrailStartFrames frames: running, or with body 1
\* grabbed by the mouse (which pauses)
InitTrail ==
    \E grabbed \in {None, 1} :
        StartIn(AfterFrames(LongList, TrailStartFrames), grabbed # None,
                IF grabbed = None THEN "idle" ELSE "drag_body", grabbed, grabbed, 1,
                TrailStartFrames, HistAfter(LongList, TrailStartFrames))

NextTrail == Loop \/ TrailEvent \/ Frame(TrailStartFrames + MaxTrailFrames)

SpecTrail == InitTrail /\ [][NextTrail]_vars

\* ====================================================================
\* Properties
\* ====================================================================
\* the collision condition of two bodies, on squared distances
WithinThreshold(a, b) ==
    Norm2(VSub(a.position, b.position)) <
        ((a.base_radius + b.base_radius) * CollisionScale) * ((a.base_radius + b.base_radius) * CollisionScale)

AtThreshold(a, b) ==
    Norm2(VSub(a.position, b.position)) =
        ((a.base_radius + b.base_radius) * CollisionScale) * ((a.base_radius + b.base_radius) * CollisionScale)

\* the scan of check_collisions is looking at the pair (i, j), which overlaps
ScanMeetsOverlap ==
    /\ pc = "collide"
    /\ i <= Len(bodies)
    /\ j <= Len(bodies)
    /\ WithinThreshold(bodies[i], bodies[j])

\* C1: when check_collisions meets an overlapping pair of different masses, the
\* body of strictly smaller mass is the one removed from the list, and the
\* larger one stays in the list, its record (mass, position, velocity) unchanged.
C1_SmallerMassRemoved ==
    [][ (ScanMeetsOverlap /\ bodies[i].mass # bodies[j].mass) =>
          LET lo == CHOOSE n \in {i, j} : \A m \in {i, j} : bodies[n].mass <= bodies[m].mass
              hi == CHOOSE n \in {i, j} : n # lo
          IN  /\ Ids(bodies') = Ids(bodies) \ {bodies[lo].id}
              /\ Len(bodies') = Len(bodies) - 1
              /\ \E n \in 1..Len(bodies') : bodies'[n] = bodies[hi] ]_vars

\* C1 witness: masses 10 and 20 overlapped, the mass-10 body was removed and the
\* mass-20 body is what is left.
C1_Witness ==
    /\ op = "scan_remove"
    /\ Len(pre.bodies) = 2
    /\ pre.bodies[1].mass = 10
    /\ pre.bodies[2].mass = 20
    /\ WithinThreshold(pre.bodies[1], pre.bodies[2])
    /\ bodies = <<pre.bodies[2]>>

\* C2: when check_collisions has returned, no two bodies left in the list are
\* closer than their collision threshold; and a pair at exactly the threshold
\* distance is not a collision: two such bodies alone are both kept.
C2_NoOverlapLeft ==
    pc = "substeps" =>
        /\ \A a, b \in 1..Len(bodies) : a < b => ~WithinThreshold(bodies[a], bodies[b])
        /\ (Len(pre.bodies) = 2 /\ AtThreshold(pre.bodies[1], pre.bodies[2])) =>
               bodies = pre.bodies

\* C2 witness: the call removed a body and left at least two, one of them at
\* exactly the threshold distance from another.
C2_Witness ==
    /\ pc = "substeps"
    /\ Len(bodies) < Len(pre.bodies)
    /\ \E a, b \in 1..Len(bodies) : a < b /\ AtThreshold(bodies[a], bodies[b])

\* C3: when check_collisions meets an overlapping pair of exactly equal mass,
\* the body earlier in the list survives, unchanged and at its place, and the
\* later one is removed.
C3_TieEarlierSurvives ==
    [][ (ScanMeetsOverlap /\ bodies[i].mass = bodies[j].mass) =>
          /\ i < j
          /\ Ids(bodies') = Ids(bodies) \ {bodies[j].id}
          /\ Len(bodies') = Len(bodies) - 1
          /\ bodies'[i] = bodies[i] ]_vars

\* C3 witness: two bodies of equal mass overlapped and the first one is left.
C3_Witness ==
    /\ op = "scan_remove"
    /\ Len(pre.bodies) = 2
    /\ pre.bodies[1].mass = pre.bodies[2].mass
    /\ bodies = <<pre.bodies[1]>>

\* bodies of the list check_collisions was called on that are no longer in the list
RemovedInCall == {n \in 1..Len(pre.bodies) : pre.bodies[n].id \notin Ids(bodies)}

\* C4: during a call of check_collisions the messages added are as many as the
\* bodies removed, one per removed body, put in front of the old messages; each
\* names a removed body first and, second, a body it overlapped that is not
\* lighter (its survivor).
C4_OneMessagePerRemoval ==
    (pc \in {"collide", "substeps"} /\ pre.valid) =>
        LET added == Len(collision_messages) - Len(pre.messages)
        IN  /\ added = Len(pre.bodies) - Len(bodies)
            /\ added = Cardinality(RemovedInCall)
            /\ SubSeq(collision_messages, added + 1, Len(collision_messages)) = pre.messages
            /\ Cardinality({collision_messages[m][1] : m \in 1..added}) = added
            /\ \A m \in 1..added :
                 \E r \in RemovedInCall, q \in 1..Len(pre.bodies) :
                    /\ q # r
                    /\ collision_messages[m] = <<pre.bodies[r].name, pre.bodies[q].name>>
                    /\ WithinThreshold(pre.bodies[r], pre.bodies[q])
                    /\ pre.bodies[r].mass <= pre.bodies[q].mass

\* C4 witness: a call that removed two bodies and has returned.
C4_Witness ==
    /\ pc = "substeps"
    /\ Len(pre.bodies) - Len(bodies) = 2
    /\ Len(collision_messages) = 2

\* C5: in a frame that runs, check_collisions is called once, before anything
\* else: while it scans, no sub-step has been done and no body has been kicked
\* or moved (every body is as it was when update_physics was called); once the
\* sub-steps have begun, the one scan is complete and is not entered again.
C5_CollisionsOnceBeforeIntegration ==
    /\ pc \in {"collide", "substeps"} =>
          /\ k = 0
          /\ collision_calls = 1
          /\ \A n \in 1..Len(bodies) : \E m \in 1..Len(pre.bodies) : bodies[n] = pre.bodies[m]
    /\ pc \in {"kick1", "drift", "kick2", "trail"} =>
          /\ collision_calls = 1
          /\ i > Len(bodies)

\* C5 witness: the frame's scan removed a body and has returned, and the first
\* forces of the frame are about to be computed.
C5_Witness ==
    /\ pc = "kick1"
    /\ k = 0
    /\ Len(bodies) < Len(pre.bodies)
    /\ collision_calls = 1

\* C6: a call of update_physics while the simulation is paused, or on an empty
\* body list, changes neither the body list (no body's position, velocity,
\* mass or trail) nor the collision messages.
C6_PausedOrEmptyNoOp ==
    (pre.valid /\ (paused \/ pre.bodies = <<>>)) =>
        /\ bodies = pre.bodies
        /\ collision_messages = pre.messages

\* C6 witness: update_physics has been called and has returned while paused,
\* with bodies in the list and a collision message on display.
C6_Witness ==
    /\ pc = "camera"
    /\ op = "physics_skip"
    /\ paused
    /\ interaction_mode = "idle"
    /\ bodies # <<>>
    /\ collision_messages # <<>>

\* the trail of b after one more update_trail at position b.position
TrailPlusPosition(old, b) ==
    IF Len(old) + 1 > b.max_trail_length
    THEN Tail(Append(old, b.position))
    ELSE Append(old, b.position)

\* C7: in a frame that runs no trail changes before all sub-steps are done, and
\* when the frame is over every live body's trail is its trail from before the
\* frame plus one point, the body's position at the end of the frame - with 20
\* sub-steps as with 100.
C7_OneTrailPointPerFrame ==
    /\ pc = "trail" => k = substeps
    /\ pre.valid =>
          \A n \in 1..Len(bodies) :
             LET b == bodies[n]
                 old == pre.bodies[IndexOf(pre.bodies, b.id)].trail
             IN  IF pc \in {"camera", "draw"} /\ collision_calls = 1
                 THEN b.trail = TrailPlusPosition(old, b)
                 ELSE b.trail = old

\* C7 witness: a second frame of 100 sub-steps is over and a body that moved has
\* two points on its trail.
C7_Witness ==
    /\ pc = "camera"
    /\ collision_calls = 1
    /\ substeps = SubstepsMoon
    /\ frames = 2
    /\ \E n \in 1..Len(bodies) :
          /\ Len(bodies[n].trail) = 2
          /\ bodies[n].trail[1] # bodies[n].trail[2]

\* C8: no trail is ever longer than its body's max_trail_length.
C8_TrailBounded ==
    \A n \in 1..Len(bodies) : Len(bodies[n].trail) <= bodies[n].max_trail_length

\* C8 witness: after events and more frames than its max_trail_length a body's
\* trail is exactly max_trail_length long.
C8_Witness ==
    /\ events > 0
    /\ \E n \in 1..Len(bodies) :
          /\ frames > bodies[n].max_trail_length
          /\ Len(bodies[n].trail) = bodies[n].max_trail_length

\* C9: once more frames than max_trail_length have been recorded for a body
\* without its trail being cleared, its trail is the positions recorded at the
\* last max_trail_length frames, in order: with n frames recorded, the oldest
\* point kept is that of frame n - max_trail_length (counting from 0).
C9_TrailIsFifo ==
    \A n \in 1..Len(bodies) :
       LET b == bodies[n]
           h == IF b.id \in DOMAIN hist THEN hist[b.id] ELSE <<>>
       IN  Len(h) > b.max_trail_length =>
              b.trail = SubSeq(h, Len(h) - b.max_trail_length + 1, Len(h))

\* C9 witness: a moving body has been recorded for more than max_trail_length + 1
\* frames.
C9_Witness ==
    \E n \in 1..Len(bodies) :
       /\ bodies[n].id \in DOMAIN hist
       /\ Len(hist[bodies[n].id]) > bodies[n].max_trail_length + 1
       /\ bodies[n].trail[1] # bodies[n].trail[2]

\* C10: a mouse motion that drags a body leaves every body but the dragged one
\* as it was (trail, position, velocity, mass), and the dragged body ends with
\* an empty trail, its mass and velocity unchanged.
C10_DragClearsOnlyOwnTrail ==
    [][ op' = "drag_body" =>
          /\ Len(bodies') = Len(bodies)
          /\ \A n \in 1..Len(bodies) :
                IF bodies[n].id = active_body
                THEN /\ bodies'[n].trail = <<>>
                     /\ bodies'[n].mass = bodies[n].mass
                     /\ bodies'[n].velocity = bodies[n].velocity
                     /\ bodies'[n].id = bodies[n].id
                ELSE bodies'[n] = bodies[n] ]_vars

\* C10 witness: after a frame gave every body a trail point, one body was
\* dragged to a new place and has an empty trail, another still has its point.
C10_Witness ==
    /\ op = "drag_body"
    /\ frames >= 1
    /\ \E n, m \in 1..Len(bodies) :
          /\ bodies[n].id = active_body
          /\ bodies[n].trail = <<>>
          /\ bodies[n].position \in DragPositions
          /\ active_body \notin DOMAIN hist
          /\ n # m
          /\ bodies[m].trail # <<>>

\* texts that are no number, whatever the entry
NotNumbers ==
    { <<"a", "b", "c">>, <<"M", "o", "o", "n">>, <<" ", "X", " ">>, <<"1", ".", ".", "2">>, <<>> }

NumberEntries == {"mass_entry", "vx_entry", "vy_entry", "speed_entry"}

\* C11: every body in the list has a mass greater than zero, in every state
\* (a mass edit to zero or less is refused and the mass stays as it was).
C11_MassPositive ==
    \A n \in 1..Len(bodies) : bodies[n].mass > 0

\* C13: a text that is no number, finished in the mass, speed, Vel X or Vel Y
\* entry, changes no body (mass, velocity, position and name of the selected
\* body included) and prints "Invalid number input".
C13_InvalidNumberReported ==
    [][ (op' = "text_entry" /\ last_entry'[1] \in NumberEntries /\ last_entry'[2] \in NotNumbers) =>
          /\ bodies' = bodies
          /\ console' = Append(console, "Invalid number input") ]_vars

\* C13 witness: "abc" was finished in the mass entry of a selected body and the
\* error line is on standard output.
C13_Witness ==
    /\ op = "text_entry"
    /\ last_entry = <<"mass_entry", <<"a", "b", "c">>>>
    /\ selected_body \in Ids(bodies)
    /\ console # <<>>

\* while the edit panel (and with it the delete button) exists, its body is in
\* the list
PanelTargetLive ==
    /\ edit_panel => selected_body \in Ids(bodies)
    /\ selected_body # None => edit_panel

C12_UnknownPresetNoChange ==
    [][ (op' = "load_preset" /\ last_entry'[2] \notin Presets) =>
          /\ bodies' = bodies
          /\ collision_messages' = collision_messages
          /\ current_preset' = current_preset ]_vars

\* C15: selected_body and active_body are each None or a body of the list, in
\* every state.
C15_NoDanglingReference ==
    /\ selected_body = None \/ selected_body \in Ids(bodies)
    /\ active_body = None \/ active_body \in Ids(bodies)

\* C16 as claimed: after the correction of a non-empty list of positive total
\* mass, the sum of mass times position and the sum of mass times velocity are
\* both exactly (0,0), and every mass is as before.
C16_DriftExactlyZero ==
    (op = "correct_drift" /\ bodies # <<>> /\ TotalMass(bodies) > 0) =>
        /\ MassWeightedSum(bodies, "position") = <<0, 0>>
        /\ MassWeightedSum(bodies, "velocity") = <<0, 0>>
        /\ \A n \in 1..Len(bodies) : bodies[n].mass = pre.bodies[n].mass

\* C16 amended: after the correction the center of mass and the velocity of the
\* center of mass, recomputed as the correction computes them (the sums divided
\* by the total mass), are (0,0) at the resolution of the arithmetic; every
\* body keeps its mass, and the list its length and order.
C16_DriftZeroWithinRounding ==
    (op = "correct_drift" /\ bodies # <<>> /\ TotalMass(bodies) > 0) =>
        /\ VDiv(MassWeightedSum(bodies, "position"), TotalMass(bodies)) = <<0, 0>>
        /\ VDiv(MassWeightedSum(bodies, "velocity"), TotalMass(bodies)) = <<0, 0>>
        /\ Len(bodies) = Len(pre.bodies)
        /\ \A n \in 1..Len(bodies) :
              /\ bodies[n].mass = pre.bodies[n].mass
              /\ bodies[n].id = pre.bodies[n].id

\* C16 witness: three bodies that were off center and drifting have been
\* corrected, every one of them moved and slowed.
C16_Witness ==
    /\ op = "correct_drift"
    /\ Len(bodies) = 3
    /\ \A n \in 1..3 :
          /\ bodies[n].position # pre.bodies[n].position
          /\ bodies[n].velocity # pre.bodies[n].velocity
    /\ MassWeightedSum(bodies, "position") # <<0, 0>>

Kicks == {"kick1", "kick2"}

Dot(a, b) == a[1] * b[1] + a[2] * b[2]

\* the total momentum: sum over the bodies of mass times velocity
Momentum(bs) == MassWeightedSum(bs, "velocity")

\* index of body n in the list without body m
Without(n, m) == IF m < n THEN n - 1 ELSE n

\* C17: after a kick phase, the force on a body that shares its position with
\* another body is the force it would have had without that body in the list
\* (the pair contributes nothing); it is zero if every other body is at its
\* position. No division by zero occurs on the way.
C17_CoincidentNoForce ==
    op \in Kicks =>
        \A n, m \in 1..Len(bodies) :
            (n # m /\ bodies[n].position = bodies[m].position) =>
                /\ bodies[n].force_vector = calculate_forces(RemoveAt(bodies, m), Without(n, m))
                /\ (\A o \in 1..Len(bodies) : bodies[o].position = bodies[n].position) =>
                       bodies[n].force_vector = <<0, 0>>

\* C17 witness: of three bodies two are at the same place, and after the kick
\* one of the two has a force on it, that of the third body.
C17_Witness ==
    /\ op = "kick1"
    /\ Len(bodies) = 3
    /\ bodies[1].position = bodies[2].position
    /\ bodies[3].position # bodies[1].position
    /\ bodies[1].force_vector # <<0, 0>>
    /\ bodies[1].force_vector = calculate_forces(<<bodies[1], bodies[3]>>, 1)

\* C18: a body alone in the list gets zero force in every kick and keeps its
\* velocity, and at rest it keeps its position in the drift; two bodies of the
\* same mass and velocity at different places (near enough for the force to
\* show in model units) each get a force towards the other.
C18_NoSelfForce ==
    [][ /\ (op' \in Kicks /\ Len(bodies) = 1) =>
              /\ bodies'[1].force_vector = <<0, 0>>
              /\ bodies'[1].velocity = bodies[1].velocity
        /\ (op' = "drift" /\ Len(bodies) = 1 /\ bodies[1].velocity = <<0, 0>>) =>
              bodies'[1].position = bodies[1].position
        /\ (/\ op' \in Kicks
            /\ Len(bodies) = 2
            /\ bodies[1].mass = bodies[2].mass
            /\ bodies[1].velocity = bodies[2].velocity
            /\ bodies[1].position # bodies[2].position
            /\ Norm2(VSub(bodies[1].position, bodies[2].position)) <= 2500) =>
              /\ Dot(bodies'[1].force_vector, VSub(bodies[2].position, bodies[1].position)) > 0
              /\ Dot(bodies'[2].force_vector, VSub(bodies[1].position, bodies[2].position)) > 0
      ]_vars

\* C18 witness: two bodies of equal mass at different places have been kicked
\* from equal velocities and pull at each other.
C18_Witness ==
    /\ op = "kick1"
    /\ k = SubstepsDefault - MaxForceSteps
    /\ Len(bodies) = 2
    /\ bodies[1].mass = bodies[2].mass
    /\ bodies[1].position # bodies[2].position
    /\ bodies[1].force_vector # <<0, 0>>
    /\ VAdd(bodies[1].force_vector, bodies[2].force_vector) = <<0, 0>>
    /\ VAdd(bodies[1].velocity, bodies[2].velocity) \in {<<0, 0>>, <<2, 0>>}

\* C19: a kick phase changes no position, and the force it stores for every
\* body is the force computed from the positions at the start of the phase;
\* a step of a frame that changes the position of a body is a drift.
C19_ForcesFromOneSnapshot ==
    [][ /\ op' \in Kicks =>
              /\ Len(bodies') = Len(bodies)
              /\ \A n \in 1..Len(bodies) :
                    /\ bodies'[n].position = bodies[n].position
                    /\ bodies'[n].force_vector = calculate_forces(bodies, n)
        /\ (\E n \in 1..Len(bodies), m \in 1..Len(bodies') :
               /\ bodies'[m].id = bodies[n].id
               /\ bodies'[m].position # bodies[n].position) => op' = "drift"
      ]_vars

\* C19 witness: the last kick of a frame is done and a body has a force on it.
C19_Witness ==
    /\ op = "kick2"
    /\ k = substeps
    /\ Len(bodies) >= 2
    /\ \E n \in 1..Len(bodies) :
          /\ bodies[n].force_vector # <<0, 0>>
          /\ bodies[n].position # pre.bodies[n].position

\* C20 as claimed: a step that removes no body leaves the total momentum
\* exactly as it was.
C20_MomentumExact ==
    [][ Len(bodies') = Len(bodies) => Momentum(bodies') = Momentum(bodies) ]_vars

\* C20 amended: in a kick phase the force on a due to b is the negative of the
\* force on b due to a, so the stored forces sum to zero, and the total momentum
\* changes by less than the rounding of the accelerations allows (per component
\* less than total mass times dt / 2); every other step without a removal
\* leaves the total momentum as it was.
C20_MomentumWithinRounding ==
    [][ /\ op' \in Kicks =>
              /\ \A n, m \in 1..Len(bodies) :
                    n # m => PairForce(bodies[n], bodies[m]) =
                             VScale(PairForce(bodies[m], bodies[n]), 0 - 1)
              /\ MassWeightedSum([n \in 1..Len(bodies') |->
                     [mass |-> 1, position |-> bodies'[n].force_vector,
                      velocity |-> <<0, 0>>]], "position") = <<0, 0>>
              /\ \A c \in 1..2 :
                    Abs(Momentum(bodies')[c] - Momentum(bodies)[c]) <
                        Div(dt, 2) * TotalMass(bodies)
        /\ (op' \notin Kicks /\ Len(bodies') = Len(bodies)) =>
              Momentum(bodies') = Momentum(bodies)
      ]_vars

\* C20 witness: three bodies of unequal masses have gone through the last kick
\* of the frame with forces on them.
C20_Witness ==
    /\ op = "kick2"
    /\ k = SubstepsDefault
    /\ Len(bodies) = 3
    /\ bodies[1].mass # bodies[2].mass
    /\ bodies[1].force_vector # <<0, 0>>
    /\ bodies[2].force_vector # <<0, 0>>

\* what a preset is asked to fix of a body
BodyData(b) == [name |-> b.name, mass |-> b.mass, position |-> b.position,
                velocity |-> b.velocity]

\* C21: two calls of load_preset with the same registered name, one right after
\* the other, leave the same number of bodies with the same names, masses,
\* positions and velocities.
C21_PresetPure ==
    [][ (/\ op = "load_preset"
         /\ op' = "load_preset"
         /\ last_entry' = last_entry
         /\ last_entry'[2] \in Presets) =>
            /\ Len(bodies') = Len(bodies)
            /\ \A n \in 1..Len(bodies) : BodyData(bodies'[n]) = BodyData(bodies[n])
      ]_vars

\* C22: when a frame chooses its substep count and the bodies are those the
\* frame before ended with (none added, none removed), the count is the one
\* the frame before used.
C22_SubstepsFollowComposition ==
    [][ (/\ op' = "select_substeps"
         /\ frames >= 1
         /\ Ids(bodies) = DOMAIN hist) => substeps' = substeps
      ]_vars

\* C23: a text that is not empty after trimming, finished in the name entry
\* while a body is selected, becomes that body's name (trimmed), and nothing
\* else about any body changes.
C23_RenameAnyName ==
    [][ (/\ op' = "text_entry"
         /\ last_entry'[1] = "name_entry"
         /\ strip(last_entry'[2]) # <<>>
         /\ selected_body \in Ids(bodies)) =>
            bodies' = [bodies EXCEPT ![IndexOf(bodies, selected_body)].name =
                                         AsString(strip(last_entry'[2]))]
      ]_vars

\* positions of the program inside update_physics, after its guard
FramePcs == {"collide", "substeps", "kick1", "drift", "kick2", "trail"}

\* the steps that handle an input event
EventOps ==
    {"mouse_down_vector", "mouse_down_body", "mouse_down_empty", "mouse_up", "drag_body",
     "drag_vector", "toggle_pause", "delete", "add_body", "time_slider", "center_camera",
     "load_preset", "text_entry"}

\* C24: an input event is handled in handle_input only, never inside a frame;
\* inside a frame no event is counted, no body is added, no surviving body
\* changes its name or mass, and pause, mode and time scale stay as they are;
\* while a body is held (drag_body) update_physics starts no frame, paused or not.
C24_MutationsBetweenFrames ==
    [][ /\ op' \in EventOps => (pc = "events" /\ pc' = "events" /\ k' = k)
        /\ pc \in FramePcs =>
              /\ events' = events
              /\ <<paused', interaction_mode', active_body', time_scale'>> =
                 <<paused, interaction_mode, active_body, time_scale>>
              /\ Ids(bodies') \subseteq Ids(bodies)
              /\ \A n \in 1..Len(bodies') :
                    LET b == bodies[IndexOf(bodies, bodies'[n].id)]
                    IN  bodies'[n].name = b.name /\ bodies'[n].mass = b.mass
        /\ interaction_mode' = "drag_body" => (pc' \notin FramePcs /\ frames' = frames)
      ]_vars

\* C24 witness: a body is held, the simulation is not paused, and update_physics
\* has returned without running a frame.
C24_Witness ==
    /\ op = "physics_skip"
    /\ ~paused
    /\ interaction_mode = "drag_body"
    /\ active_body \in Ids(bodies)
    /\ frames = 0

\* C25: after a removal the scan goes on with the first pair of the shortened
\* list (indices 0 and 1 in the code, 1 and 2 here).
C25_ScanRestartsAtFirstPair ==
    [][ op' = "scan_remove" => (i' = 1 /\ j' = 2) ]_vars

\* velocity += force / mass * (dt / 2), read off a step from body b to body c
HalfKicked(b, c, step) ==
    c.velocity = VAdd(b.velocity, VScale(VDiv(c.force_vector, b.mass), Div(step, 2)))

\* C26: a frame that runs chooses dt = TIME_STEP * time_scale / substeps, then
\* runs half-kick, drift, half-kick in this order, substeps times: each
\* half-kick adds force / mass * (dt / 2) to every velocity, each drift adds
\* velocity * dt to every position, the trails are updated only after sub-step
\* number substeps, and substeps * dt is TIME_STEP * time_scale.
C26_SubstepsKickDriftKick ==
    [][ /\ op' = "select_substeps" =>
              /\ dt' = Div(TIME_STEP * time_scale, substeps')
              /\ substeps' * dt' = TIME_STEP * time_scale
              /\ k' = 0
        /\ op' \in {"kick1", "drift", "kick2"} =>
              /\ <<dt', substeps'>> = <<dt, substeps>>
              /\ Len(bodies') = Len(bodies)
              /\ k < substeps
        /\ op' = "kick1" =>
              /\ op \in {"select_substeps", "kick2"}
              /\ k' = k
              /\ \A n \in 1..Len(bodies) : HalfKicked(bodies[n], bodies'[n], dt)
        /\ op' = "drift" =>
              /\ op = "kick1"
              /\ k' = k
              /\ \A n \in 1..Len(bodies) :
                    /\ bodies'[n].position =
                           VAdd(bodies[n].position, VScale(bodies[n].velocity, dt))
                    /\ bodies'[n].velocity = bodies[n].velocity
        /\ op' = "kick2" =>
              /\ op = "drift"
              /\ k' = k + 1
              /\ \A n \in 1..Len(bodies) : HalfKicked(bodies[n], bodies'[n], dt)
        /\ op' = "update_trails" => (op = "kick2" /\ k = substeps)
      ]_vars

\* C26 witness: the last of 100 sub-steps of a frame at time scale 2 is done
\* and a body is moving.
C26_Witness ==
    /\ op = "kick2"
    /\ k = substeps
    /\ substeps = SubstepsMoon
    /\ time_scale = 2
    /\ dt = 4
    /\ \E n \in 1..Len(bodies) : bodies[n].velocity # <<0, 0>>

\* the names of the bodies of a list
Names(bs) == {bs[n].name : n \in 1..Len(bs)}

\* C27: the substep count is chosen right after check_collisions has returned,
\* and throughout the sub-steps of the frame it is 100 if a body of the list is
\* named "Moon" and 20 if none is.
C27_SubstepsByMoon ==
    [][ /\ op' = "select_substeps" => (op = "scan_return" /\ bodies' = bodies)
        /\ pc' \in {"kick1", "drift", "kick2", "trail"} =>
              /\ "Moon" \in Names(bodies') => substeps' = 100
              /\ "Moon" \notin Names(bodies') => substeps' = 20
      ]_vars

\* C27 witness: the Moon the frame started with was removed by the frame's
\* collision check, and the frame runs with 20 sub-steps.
C27_Witness ==
    /\ pc = "kick1"
    /\ pre.valid
    /\ "Moon" \in Names(pre.bodies)
    /\ "Moon" \notin Names(bodies)
    /\ bodies # <<>>
    /\ substeps = 20

\* a number that bounds the steps check_collisions still has to take: the bodies
\* weigh most, then the distance of i, then that of j, from the end
ScanMeasure(bs, ii, jj) ==
    LET width == MaxScanBodies + 3
    IN  Len(bs) * width * width + (width - ii) * width + (width - jj)

\* C28: every iteration of the loops of check_collisions removes one body or
\* leaves the list alone and advances i, or j at the same i; a natural number
\* that depends on list length, i and j decreases with every iteration, so the
\* loops end; and a call on a non-empty list returns with a non-empty list.
C28_ScanTerminates ==
    [][ /\ op' \in {"scan_next_i", "scan_next_j", "scan_remove"} =>
              /\ \/ Len(bodies') = Len(bodies) - 1
                 \/ bodies' = bodies /\ (i' > i \/ (i' = i /\ j' > j))
              /\ ScanMeasure(bodies', i', j') < ScanMeasure(bodies, i, j)
              /\ ScanMeasure(bodies', i', j') >= 0
        /\ (op' = "scan_return" /\ pre.bodies # <<>>) =>
              /\ Len(bodies') >= 1
              /\ Len(pre.bodies) - Len(bodies') <= Len(pre.bodies) - 1
      ]_vars

\* C28 witness: a call on three bodies has returned after removing two of them.
C28_Witness ==
    /\ op = "scan_return"
    /\ pre.valid
    /\ Len(pre.bodies) = 3
    /\ Len(bodies) = 1
    /\ Len(collision_messages) = 2

\* body n of the list has more mass than every other body of the list
StrictlyHeaviest(bs, n) == \A m \in 1..Len(bs) : m # n => bs[m].mass < bs[n].mass

\* C29: a removal by check_collisions never takes the body that has more mass
\* than every other body of the list, and no step of check_collisions empties
\* a list that has a body.
C29_HeaviestSurvives ==
    [][ /\ op' = "scan_remove" =>
              \A n \in 1..Len(bodies) :
                  StrictlyHeaviest(bodies, n) => bodies[n].id \in Ids(bodies')
        /\ bodies # <<>> => bodies' # <<>>
      ]_vars

\* C29 witness: of three bodies the last one is the heaviest; it has collided
\* and is the only body left after two removals.
C29_Witness ==
    /\ op = "scan_remove"
    /\ pre.valid
    /\ Len(pre.bodies) = 3
    /\ StrictlyHeaviest(pre.bodies, 3)
    /\ Ids(bodies) = {3}
    /\ collision_messages[1][2] = pre.bodies[3].name

\* C30: load_preset with a registered name leaves exactly the bodies of that
\* preset, all of them new objects with empty trails, no collision message, no
\* selected body and no edit panel, and the simulation paused; a paused
\* simulation completes no frame and is inside none, and only the space bar or
\* the play button ends a pause.
C30_PresetResetsRun ==
    [][ /\ (op' = "load_preset" /\ last_entry'[2] \in Presets) =>
              /\ \E draws \in ChaosDraws :
                    LET fresh == PresetData(last_entry'[2], 1, draws)
                    IN  /\ Len(bodies') = Len(fresh)
                        /\ \A n \in 1..Len(fresh) :
                              /\ BodyData(bodies'[n]) = BodyData(fresh[n])
                              /\ bodies'[n].trail = <<>>
              /\ Ids(bodies') \cap Ids(bodies) = {}
              /\ collision_messages' = <<>>
              /\ selected_body' = None
              /\ ~edit_panel'
              /\ paused'
        /\ (paused /\ ~paused') => op' = "toggle_pause"
        /\ paused' => (frames' = frames /\ pc' \notin FramePcs)
      ]_vars

\* C30 witness: "Sun Earth Moon" was loaded after a frame had run on other
\* bodies; the three bodies of the preset are the list and the simulation is
\* paused.
C30_Witness ==
    /\ op = "load_preset"
    /\ last_entry = <<"preset_dropdown", "Sun Earth Moon">>
    /\ frames = 1
    /\ Names(bodies) = {"Sun", "Earth", "Moon"}
    /\ 1 \notin Ids(bodies)
    /\ paused

====
